---- MODULE Spec2Model ----
(***************************************************************************)
(* Model of src/app.py: the OHLC frame built from the CSV files, the entry *)
(* lines typed by the user, the take-profit / stop-loss forward scan and   *)
(* the result table.                                                       *)
(*                                                                         *)
(* Prices are integers.  The code multiplies a price by (1 +/- pct/100);   *)
(* the model keeps such products exact by carrying threshold and exit      *)
(* prices in hundredths (Scale).  The exit percentages and prices used     *)
(* below (25, 50; 50, 100, 120, 150) are values for which the float64      *)
(* products of the code are exact as well, so every comparison of the      *)
(* model agrees with the comparison the code makes.  "PnL %" is an exact   *)
(* fraction in lowest terms.  Open and Volume are carried by the frame but *)
(* never read by the backtest; the model leaves them out.                  *)
(***************************************************************************)
EXTENDS Integers, Sequences, FiniteSets

VARIABLES df, entries_input, tp_pct, sl_pct, entry_dates, trades, i,
          entry_date, entry_price, j, exit_price, result, exit_date,
          total_return, win_rate, pc, prev

vars == <<df, entries_input, tp_pct, sl_pct, entry_dates, trades, i,
          entry_date, entry_price, j, exit_price, result, exit_date,
          total_return, win_rate, pc, prev>>

(* ---------------------------- bounds ----------------------------------- *)
MaxRows == 3
MaxEntries == 2

(* ---------------------------- constants -------------------------------- *)
Scale == 100
NaT == 0
None == 0

Dates == {1, 2}
Lines == Dates \cup {NaT}
TpChoices == {25, 50}
SlChoices == {25, 50}
Candles == { [High |-> 100, Low |-> 100, Close |-> 100],
             [High |-> 120, Low |-> 100, Close |-> 120],
             [High |-> 150, Low |-> 100, Close |-> 150],
             [High |-> 150, Low |-> 50,  Close |-> 50] }
RawRows == { [Date |-> d, High |-> c.High, Low |-> c.Low, Close |-> c.Close] :
             d \in Dates \cup {NaT}, c \in Candles }

SeqsUpTo(S, n) == UNION { [1..k -> S] : k \in 0..n }

(* ---------------------------- rationals -------------------------------- *)
Abs(x) == IF x < 0 THEN 0 - x ELSE x

RECURSIVE GCD(_, _)
GCD(a, b) == IF b = 0 THEN a ELSE GCD(b, a % b)

Frac(n, d) == LET g == GCD(Abs(n), Abs(d))
              IN  IF d < 0 THEN [num |-> (0 - n) \div g, den |-> (0 - d) \div g]
                           ELSE [num |-> n \div g, den |-> d \div g]
AddQ(a, b) == Frac(a.num * b.den + b.num * a.den, a.den * b.den)
Zero == Frac(0, 1)

(* ---------------------------- loading ---------------------------------- *)
(* Lines 29-38: rows whose Date did not parse are dropped, the frames are   *)
(* concatenated, indexed by Date and sorted by Date.  No row is removed for *)
(* sharing a Date with another.  The sort is written as a stable insertion; *)
(* the order an unstable sort may give to rows of equal Date is the stable  *)
(* order of another arrangement of the same files, and Init draws them all. *)
DropNaT(rows) == SelectSeq(rows, LAMBDA r : r.Date # NaT)

RECURSIVE Concat(_)
Concat(frames) == IF frames = <<>> THEN <<>>
                  ELSE Head(frames) \o Concat(Tail(frames))

RECURSIVE InsertByDate(_, _)
InsertByDate(sorted, r) ==
    IF sorted = <<>> THEN <<r>>
    ELSE IF Head(sorted).Date <= r.Date
         THEN <<Head(sorted)>> \o InsertByDate(Tail(sorted), r)
         ELSE <<r>> \o sorted

RECURSIVE SortIndex(_)
SortIndex(rows) ==
    IF rows = <<>> THEN <<>>
    ELSE InsertByDate(SortIndex(SubSeq(rows, 1, Len(rows) - 1)), rows[Len(rows)])

BuildSeries(files) ==
    SortIndex(Concat([k \in 1..Len(files) |-> DropNaT(files[k])]))

(* ---------------------------- frame access ----------------------------- *)
(* df.loc[dt, "Close"] is every Close stored under dt: a scalar (length 1)  *)
(* when dt is unique in the index, a Series when it is not.  df.loc[dt:] is *)
(* the rows from the first row dated at or after dt; SliceFrom is the       *)
(* position of that row.                                                    *)
InIndex(d, dt) == \E k \in 1..Len(d) : d[k].Date = dt

RECURSIVE LocHigh(_, _)
LocHigh(d, dt) ==
    IF d = <<>> THEN <<>>
    ELSE IF Head(d).Date = dt THEN <<Head(d).High>> \o LocHigh(Tail(d), dt)
         ELSE LocHigh(Tail(d), dt)

RECURSIVE LocClose(_, _)
LocClose(d, dt) ==
    IF d = <<>> THEN <<>>
    ELSE IF Head(d).Date = dt THEN <<Head(d).Close>> \o LocClose(Tail(d), dt)
         ELSE LocClose(Tail(d), dt)

RECURSIVE SliceAfter(_, _, _)
SliceAfter(d, dt, k) ==
    IF k > Len(d) THEN k
    ELSE IF d[k].Date > dt THEN k ELSE SliceAfter(d, dt, k + 1)

RECURSIVE SliceFrom(_, _, _)
SliceFrom(d, dt, k) ==
    IF k > Len(d) THEN k
    ELSE IF d[k].Date >= dt THEN k ELSE SliceFrom(d, dt, k + 1)

TpPrice(ep, tp) == ep * (Scale + tp)
SlPrice(ep, sl) == ep * (Scale - sl)
HitsTP(row, ep, tp) == Scale * row.High >= TpPrice(ep, tp)
HitsSL(row, ep, sl) == Scale * row.Low <= SlPrice(ep, sl)
ScanRowStopFirst(row, ep, tp, sl) ==
    IF HitsSL(row, ep, sl) THEN "SL"
    ELSE IF HitsTP(row, ep, tp) THEN "TP"
    ELSE "next"
ScanRow(row, ep, tp, sl) ==
    IF HitsTP(row, ep, tp) THEN "TP"
    ELSE IF HitsSL(row, ep, sl) THEN "SL"
    ELSE "next"
FirstBar(d) == d[1]
LastBar(d) == d[Len(d)]
PnLPctSwapped(xp, ep) == Frac(Scale * ep - xp, ep)
PnLPct(xp, ep) == Frac(xp - Scale * ep, ep)

RECURSIVE ParseEntries(_, _)
ParseEntries(lines, d) ==
    IF lines = <<>> THEN <<>>
    ELSE IF Head(lines) # NaT /\ InIndex(d, Head(lines))
         THEN <<Head(lines)>> \o ParseEntries(Tail(lines), d)
         ELSE ParseEntries(Tail(lines), d)

RECURSIVE SumPnL(_, _)
SumPnL(ts, acc) == IF ts = <<>> THEN acc
                   ELSE SumPnL(Tail(ts), AddQ(acc, Head(ts).PnL))

IsWinOrFlat(t) == t.PnL.num >= 0
IsWin(t) == t.PnL.num > 0
MeanWins(ts) == Frac(Scale * Len(SelectSeq(ts, IsWin)), Len(ts))

(* ---------------------------- state machine ---------------------------- *)
(* pc is the position in the script: "entries" (line 56), "loop" (line 73), *)
(* "scan" (line 80), "append" (line 96), "done" (end of script) and "error" *)
(* (uncaught exception).  prev is the ledger of the run before the current  *)
(* one when that run ended normally on the same inputs.                     *)
NoRun == [valid |-> FALSE, trades |-> <<>>]

Init ==
    /\ \E rows \in SeqsUpTo(RawRows, MaxRows) :
         \E k \in 0..Len(rows) :
            df = BuildSeries(<<SubSeq(rows, 1, k), SubSeq(rows, k + 1, Len(rows))>>)
    /\ entries_input \in SeqsUpTo(Lines, MaxEntries)
    /\ tp_pct \in TpChoices
    /\ sl_pct \in SlChoices
    /\ entry_dates = <<>>
    /\ trades = <<>>
    /\ i = 1
    /\ entry_date = NaT
    /\ entry_price = <<>>
    /\ j = 1
    /\ exit_price = None
    /\ result = "None"
    /\ exit_date = NaT
    /\ total_return = Zero
    /\ win_rate = Zero
    /\ pc = "entries"
    /\ prev = NoRun

ReadEntries ==
    /\ pc = "entries"
    /\ entry_dates' = ParseEntries(entries_input, df)
    /\ trades' = <<>>
    /\ i' = 1
    /\ pc' = "loop"
    /\ UNCHANGED <<df, entries_input, tp_pct, sl_pct, entry_date, entry_price, j,
                   exit_price, result, exit_date, total_return, win_rate, prev>>

StartEntrySharedScan ==
    /\ pc = "loop"
    /\ i <= Len(entry_dates)
    /\ entry_date' = entry_dates[i]
    /\ entry_price' = LocClose(df, entry_dates[i])
    /\ j' = IF i = 1 THEN SliceFrom(df, entry_dates[i], 1) ELSE j + 1
    /\ exit_price' = None
    /\ result' = "None"
    /\ pc' = "scan"
    /\ UNCHANGED <<df, entries_input, tp_pct, sl_pct, entry_dates, trades, i,
                   exit_date, total_return, win_rate, prev>>

StartEntryRebind ==
    /\ pc = "loop"
    /\ i <= Len(entry_dates)
    /\ entry_date' = entry_dates[i]
    /\ entry_price' = LocClose(df, entry_dates[i])
    /\ df' = SubSeq(df, SliceFrom(df, entry_dates[i], 1), Len(df))
    /\ j' = 1
    /\ exit_price' = None
    /\ result' = "None"
    /\ pc' = "scan"
    /\ UNCHANGED <<entries_input, tp_pct, sl_pct, entry_dates, trades, i,
                   exit_date, total_return, win_rate, prev>>

StartEntry ==
    /\ pc = "loop"
    /\ i <= Len(entry_dates)
    /\ entry_date' = entry_dates[i]
    /\ entry_price' = LocClose(df, entry_dates[i])
    /\ j' = SliceFrom(df, entry_dates[i], 1)
    /\ exit_price' = None
    /\ result' = "None"
    /\ pc' = "scan"
    /\ UNCHANGED <<df, entries_input, tp_pct, sl_pct, entry_dates, trades, i,
                   exit_date, total_return, win_rate, prev>>

(* Line 81 with a Series-valued entry_price: the comparison is a Series and *)
(* its truth value raises ValueError; the script stops.                     *)
ScanRaise ==
    /\ pc = "scan"
    /\ Len(entry_price) # 1
    /\ pc' = "error"
    /\ UNCHANGED <<df, entries_input, tp_pct, sl_pct, entry_dates, trades, i,
                   entry_date, entry_price, j, exit_price, result, exit_date,
                   total_return, win_rate, prev>>

ScanTP ==
    /\ pc = "scan"
    /\ Len(entry_price) = 1
    /\ j <= Len(df)
    /\ ScanRow(df[j], entry_price[1], tp_pct, sl_pct) = "TP"
    /\ exit_price' = TpPrice(entry_price[1], tp_pct)
    /\ result' = "TP"
    /\ exit_date' = df[j].Date
    /\ pc' = "append"
    /\ UNCHANGED <<df, entries_input, tp_pct, sl_pct, entry_dates, trades, i,
                   entry_date, entry_price, j, total_return, win_rate, prev>>

ScanSL ==
    /\ pc = "scan"
    /\ Len(entry_price) = 1
    /\ j <= Len(df)
    /\ ScanRow(df[j], entry_price[1], tp_pct, sl_pct) = "SL"
    /\ exit_price' = SlPrice(entry_price[1], sl_pct)
    /\ result' = "SL"
    /\ exit_date' = df[j].Date
    /\ pc' = "append"
    /\ UNCHANGED <<df, entries_input, tp_pct, sl_pct, entry_dates, trades, i,
                   entry_date, entry_price, j, total_return, win_rate, prev>>

ScanNext ==
    /\ pc = "scan"
    /\ Len(entry_price) = 1
    /\ j <= Len(df)
    /\ ScanRow(df[j], entry_price[1], tp_pct, sl_pct) = "next"
    /\ j' = j + 1
    /\ UNCHANGED <<df, entries_input, tp_pct, sl_pct, entry_dates, trades, i,
                   entry_date, entry_price, exit_price, result, exit_date,
                   total_return, win_rate, pc, prev>>

ScanElse ==
    /\ pc = "scan"
    /\ Len(entry_price) = 1
    /\ j > Len(df)
    /\ exit_price' = Scale * LastBar(df).Close
    /\ result' = "Open"
    /\ exit_date' = LastBar(df).Date
    /\ pc' = "append"
    /\ UNCHANGED <<df, entries_input, tp_pct, sl_pct, entry_dates, trades, i,
                   entry_date, entry_price, j, total_return, win_rate, prev>>

AppendTrade ==
    /\ pc = "append"
    /\ trades' = Append(trades, [EntryDate  |-> entry_date,
                                 EntryPrice |-> entry_price[1],
                                 ExitDate   |-> exit_date,
                                 ExitPrice  |-> exit_price,
                                 Result     |-> result,
                                 PnL        |-> PnLPct(exit_price, entry_price[1])])
    /\ i' = i + 1
    /\ pc' = "loop"
    /\ UNCHANGED <<df, entries_input, tp_pct, sl_pct, entry_dates, entry_date,
                   entry_price, j, exit_price, result, exit_date,
                   total_return, win_rate, prev>>

ResultTable ==
    /\ pc = "loop"
    /\ i > Len(entry_dates)
    /\ IF trades # <<>>
       THEN /\ total_return' = SumPnL(trades, Zero)
            /\ win_rate' = MeanWins(trades)
       ELSE UNCHANGED <<total_return, win_rate>>
    /\ pc' = "done"
    /\ UNCHANGED <<df, entries_input, tp_pct, sl_pct, entry_dates, trades, i,
                   entry_date, entry_price, j, exit_price, result, exit_date, prev>>

(* A change of one widget (or a plain re-run) executes the script again     *)
(* over the same files, in a fresh namespace.                               *)
Rerun ==
    /\ pc \in {"done", "error"}
    /\ \E lines \in SeqsUpTo(Lines, MaxEntries), tp \in TpChoices, sl \in SlChoices :
         /\ \/ tp = tp_pct /\ sl = sl_pct
            \/ lines = entries_input /\ sl = sl_pct
            \/ lines = entries_input /\ tp = tp_pct
         /\ entries_input' = lines
         /\ tp_pct' = tp
         /\ sl_pct' = sl
         /\ prev' = IF pc = "done" /\ lines = entries_input
                       /\ tp = tp_pct /\ sl = sl_pct
                    THEN [valid |-> TRUE, trades |-> trades]
                    ELSE NoRun
    /\ entry_dates' = <<>>
    /\ trades' = <<>>
    /\ i' = 1
    /\ entry_date' = NaT
    /\ entry_price' = <<>>
    /\ j' = 1
    /\ exit_price' = None
    /\ result' = "None"
    /\ exit_date' = NaT
    /\ total_return' = Zero
    /\ win_rate' = Zero
    /\ pc' = "entries"
    /\ df' = df

Next ==
    \/ ReadEntries
    \/ StartEntry
    \/ ScanRaise
    \/ ScanTP
    \/ ScanSL
    \/ ScanNext
    \/ ScanElse
    \/ AppendTrade
    \/ ResultTable
    \/ Rerun

Spec == Init /\ [][Next]_vars

(* ---------------------------- properties ------------------------------- *)
TradeIdx == 1..Len(trades)
BarIdx == 1..Len(df)

(* Row k of the frame reaches the take-profit / stop-loss price of an entry *)
(* priced ep, and row k belongs to the forward slice of an entry dated dt.  *)
CrossTP(k, ep) == 100 * df[k].High >= ep * (100 + tp_pct)
CrossSL(k, ep) == 100 * df[k].Low <= ep * (100 - sl_pct)
Crosses(k, ep) == CrossTP(k, ep) \/ CrossSL(k, ep)
InScan(k, dt) == df[k].Date >= dt
FirstCross(k, dt, ep) ==
    /\ InScan(k, dt)
    /\ Crosses(k, ep)
    /\ \A m \in 1..(k - 1) : InScan(m, dt) => ~Crosses(m, ep)

(* C1: the scan of an entry goes through the rows dated at or after the     *)
(* entry in frame order, entry row included, and stops at the first row     *)
(* that reaches either threshold: every row the scan has passed reaches     *)
(* neither, and the trade exits on the first row that does, dated with that *)
(* row and priced at the threshold reached, not at a price of the row.      *)
C1_ExitAtFirstCross ==
    /\ \A n \in TradeIdx : \A k \in BarIdx :
         LET t == trades[n] IN
         FirstCross(k, t.EntryDate, t.EntryPrice) =>
            /\ t.ExitDate = df[k].Date
            /\ \/ /\ t.Result = "TP"
                  /\ CrossTP(k, t.EntryPrice)
                  /\ t.ExitPrice = t.EntryPrice * (100 + tp_pct)
               \/ /\ t.Result = "SL"
                  /\ CrossSL(k, t.EntryPrice)
                  /\ t.ExitPrice = t.EntryPrice * (100 - sl_pct)
    /\ (pc = "scan" /\ Len(entry_price) = 1) =>
         /\ j >= 1
         /\ \A m \in BarIdx :
              IF m < j THEN InScan(m, entry_date) => ~Crosses(m, entry_price[1])
              ELSE m = j => InScan(m, entry_date)

C1_Witness ==
    \E a \in TradeIdx, b \in TradeIdx :
        /\ trades[a].Result \in {"TP", "SL"}
        /\ trades[a].ExitDate > trades[a].EntryDate
        /\ trades[b].Result \in {"TP", "SL"}
        /\ trades[b].ExitDate = trades[b].EntryDate

(* C2: when the first row of the scan that reaches a threshold reaches both *)
(* the take-profit and the stop-loss price, the trade is a take-profit      *)
(* priced at the take-profit price.                                        *)
C2_TieIsTakeProfit ==
    \A n \in TradeIdx : \A k \in BarIdx :
        LET t == trades[n] IN
        (/\ FirstCross(k, t.EntryDate, t.EntryPrice)
         /\ CrossTP(k, t.EntryPrice)
         /\ CrossSL(k, t.EntryPrice))
        => (t.Result = "TP" /\ t.ExitPrice = t.EntryPrice * (100 + tp_pct))

C2_Witness ==
    \E n \in TradeIdx : \E k \in BarIdx :
        /\ FirstCross(k, trades[n].EntryDate, trades[n].EntryPrice)
        /\ CrossTP(k, trades[n].EntryPrice)
        /\ CrossSL(k, trades[n].EntryPrice)
        /\ df[k].Date > trades[n].EntryDate

(* C3: a trade is "Open" exactly when no row dated at or after its entry    *)
(* reaches a threshold, and it then exits at the Close and the date of the  *)
(* last row of the whole frame.                                            *)
NoCross(t) == \A k \in BarIdx : InScan(k, t.EntryDate) => ~Crosses(k, t.EntryPrice)

C3_OpenAtLastBar ==
    \A n \in TradeIdx :
        LET t == trades[n] IN
        /\ NoCross(t) => /\ t.Result = "Open"
                         /\ t.ExitPrice = 100 * df[Len(df)].Close
                         /\ t.ExitDate = df[Len(df)].Date
        /\ t.Result = "Open" => NoCross(t)

C3_Witness ==
    \E n \in TradeIdx :
        /\ trades[n].Result = "Open"
        /\ trades[n].EntryDate < df[Len(df)].Date
        /\ Len(df) >= 3

(* C4: once the run has ended, the ledger holds one trade per input line    *)
(* whose timestamp is in the frame, in input order; lines whose timestamp   *)
(* is not in the frame add nothing and raise nothing.                       *)
FrameDates == { df[k].Date : k \in BarIdx }
PresentEntries == SelectSeq(entries_input, LAMBDA e : e \in FrameDates)

C4_OneTradePerPresentEntry ==
    pc \in {"done", "error"} =>
        [n \in TradeIdx |-> trades[n].EntryDate] = PresentEntries

(* C5: the dates of the built frame are strictly increasing: no two rows    *)
(* share a date.                                                            *)
C5_StrictlyIncreasing ==
    \A k \in 1..(Len(df) - 1) : df[k].Date < df[k + 1].Date

(* C6: "PnL %" is (exit - entry) / entry * 100; it is positive for a "TP"   *)
(* trade, negative for an "SL" trade, and has the sign of exit - entry for  *)
(* an "Open" trade.                                                         *)
Sign(x) == IF x > 0 THEN 1 ELSE IF x < 0 THEN 0 - 1 ELSE 0

C6_PnLSign ==
    \A n \in TradeIdx :
        LET t == trades[n]
            diff == t.ExitPrice - 100 * t.EntryPrice
        IN  /\ t.PnL.den > 0
            /\ t.PnL.num * t.EntryPrice = t.PnL.den * diff
            /\ t.Result = "TP" => t.PnL.num > 0
            /\ t.Result = "SL" => t.PnL.num < 0
            /\ t.Result = "Open" => Sign(t.PnL.num) = Sign(diff)

C6_Witness ==
    \E a \in TradeIdx, b \in TradeIdx :
        /\ trades[a].Result = "Open" /\ trades[a].PnL.num > 0
        /\ trades[b].Result = "SL"

(* C7: for a non-empty ledger the total return is the sum of the "PnL %"    *)
(* of the trades and the win rate is 100 * (trades with "PnL %" > 0) /      *)
(* (trades); a trade with "PnL %" = 0 is not a win.                         *)
RECURSIVE DenProduct(_)
DenProduct(n) == IF n = 0 THEN 1 ELSE trades[n].PnL.den * DenProduct(n - 1)

RECURSIVE ScaledSum(_, _)
ScaledSum(n, D) ==
    IF n = 0 THEN 0
    ELSE trades[n].PnL.num * (D \div trades[n].PnL.den) + ScaledSum(n - 1, D)

C7_Summary ==
    (pc = "done" /\ trades # <<>>) =>
        LET D == DenProduct(Len(trades))
            wins == Cardinality({ n \in TradeIdx : trades[n].PnL.num > 0 })
        IN  /\ total_return.den > 0
            /\ total_return.num * D = total_return.den * ScaledSum(Len(trades), D)
            /\ win_rate.den > 0
            /\ win_rate.num * Len(trades) = win_rate.den * 100 * wins

C7_Witness ==
    /\ pc = "done"
    /\ \E a \in TradeIdx, b \in TradeIdx :
        /\ trades[a].PnL.num = 0
        /\ trades[b].PnL.num # 0

C9_FrameUnchanged == [][df' = df]_vars

C9_Witness ==
    /\ pc = "done"
    /\ Len(df) >= 2
    /\ \E a \in TradeIdx, b \in TradeIdx :
        /\ trades[a].Result # trades[b].Result
        /\ trades[a].EntryDate > df[1].Date

(* C10: every trade exits on a date of the frame that is not before its     *)
(* entry date, and its entry price is the Close of the row at its entry     *)
(* date.                                                                    *)
C10_ExitInFrame ==
    \A n \in TradeIdx :
        LET t == trades[n] IN
        /\ \E k \in BarIdx : df[k].Date = t.ExitDate
        /\ t.ExitDate >= t.EntryDate
        /\ \E k \in BarIdx : df[k].Date = t.EntryDate
        /\ \A k \in BarIdx : df[k].Date = t.EntryDate => df[k].Close = t.EntryPrice

C10_Witness ==
    \E n \in TradeIdx :
        /\ trades[n].Result = "Open"
        /\ trades[n].EntryDate = df[Len(df)].Date
        /\ Len(df) >= 2
====
